---- MODULE Spec2Model ----
(***************************************************************************)
(* Rank-approximate neighbor search utilities (mlpack RAUtil):             *)
(*   SuccessProbability, MinimumSamplesReqd, ObtainDistinctSamples.        *)
(*                                                                         *)
(* Doubles are modelled in exact arithmetic: a probability is a pair       *)
(* <<num, den>> with den > 0, meaning num / den.  eps = t / n, so every    *)
(* term C(m,j) eps^j (1-eps)^(m-j) is C(m,j) t^j (n-t)^(m-j) over n^m.     *)
(* Comparisons of doubles become exact comparisons of fractions.           *)
(***************************************************************************)
EXTENDS Integers, Sequences, FiniteSets

\* ---------------------------------------------------------------- bounds
MaxN == 6          \* MinimumSamplesReqd: population sizes 1..MaxN
AlphaGrid == 4     \* alpha drawn from a/AlphaGrid, a in 1..AlphaGrid, and two extremes
MaxSPN == 6        \* SuccessProbability called directly: n in 1..MaxSPN
MaxSPK == 5        \*   k in 1..MaxSPK (k may exceed n)
MaxSPM == 9        \*   m in 0..MaxSPM
MaxSamples == 3    \* ObtainDistinctSamples: numSamples in 0..MaxSamples
MaxRange == 3      \*   rangeUpperBound in 1..MaxRange

\* tau is a percentage in (0, 100]; multiples of ten reach every t in 1..n
\* for every n up to 7.
Taus == {10 * i : i \in 1..10}

\* alpha in (0, 1], as fractions.
Alphas == {<<a, AlphaGrid>> : a \in 1..AlphaGrid} \cup {<<1, 2000>>, <<1999, 2000>>}

VARIABLES
  pc,    \* which operation is running and where it is
  msr,   \* locals of MinimumSamplesReqd: n, k, tau, alpha, t, lb, ub, m, prob,
         \*   done, plus branch (the branch the last iteration took) and result
  sp,    \* a direct call of SuccessProbability: n, k, m, t and the value returned
  ods    \* locals of ObtainDistinctSamples: numSamples, rangeUpperBound, i,
         \*   sampledPoints (tally per 0-based index), draws (what RandInt
         \*   returned, in order) and distinctSamples (the output)

vars == <<pc, msr, sp, ods>>

\* ------------------------------------------------------ exact arithmetic
Min(a, b) == IF a < b THEN a ELSE b

\* std::pow(b, (double) e) for integer e >= 0; pow(0, 0) = 1.
RECURSIVE Pow(_, _)
Pow(b, e) == IF e = 0 THEN 1 ELSE b * Pow(b, e - 1)

\* a/b < c/d for a, c >= 0 and b, d > 0, by comparing integer parts and then
\* the inverted remainders, so that no product is formed.
RECURSIVE FracLess(_, _, _, _)
FracLess(a, b, c, d) ==
  LET qa == a \div b
      qc == c \div d
      ra == a % b
      rc == c % d
  IN  IF qa # qc THEN qa < qc
      ELSE IF rc = 0 THEN FALSE
      ELSE IF ra = 0 THEN TRUE
      ELSE FracLess(d, rc, b, ra)

Less(x, y) == FracLess(x[1], x[2], y[1], y[2])
Greater(x, y) == Less(y, x)
Equal(x, y) == ~Less(x, y) /\ ~Less(y, x)
LessEq(x, y) == ~Less(y, x)

\* The tolerance 0.001 of the "close enough" exit.
Tolerance == <<1, 1000>>

\* x + y for fractions.
FracAdd(x, y) == <<x[1] * y[2] + y[1] * x[2], x[2] * y[2]>>

\* ------------------------------------------------- SuccessProbability
\* if (m > n - t) return 1.0;  (k == 1)
SaturatedOne(n, m, t) == m > n - t

\* Mutant: saturation one sample late.
SaturatedKLate(n, k, m, t) == m > n - t + k

\* if (m > n - t + k - 1) return 1.0;  (k > 1)
SaturatedK(n, k, m, t) == m > n - t + k - 1

\* The inner loop: for (i = 2; i <= jTrans; i++) { mCj *= m - (i - 1); mCj /= i; }
RECURSIVE ChooseLoop(_, _, _, _)
ChooseLoop(m, jTrans, ii, mCj) ==
  IF ii <= jTrans
    THEN ChooseLoop(m, jTrans, ii + 1, (mCj * (m - (ii - 1))) \div ii)
    ELSE mCj

\* Mutant: the inner loop started at i = 1, multiplying by m once more.
IncrementalChooseFromOne(m, jTrans) == ChooseLoop(m, jTrans, 1, m)

\* double mCj = (double) m; followed by the inner loop.
IncrementalChoose(m, jTrans) == ChooseLoop(m, jTrans, 2, m)

\* jTrans = j when topHalf, m - j otherwise.
JTrans(m, j, topHalf) == IF topHalf THEN j ELSE m - j

\* mCj * pow(eps, j) * pow(1 - eps, m - j), as a numerator over n^m.
Term(n, m, t, j, topHalf) ==
  IncrementalChoose(m, JTrans(m, j, topHalf)) * Pow(t, j) * Pow(n - t, m - j)

\* for (j = lb; j < ub; j++) sum += term(j);  numerators over n^m.
RECURSIVE SumLoop(_, _, _, _, _, _, _)
SumLoop(n, m, t, j, jub, topHalf, sum) ==
  IF j < jub
    THEN SumLoop(n, m, t, j + 1, jub, topHalf, sum + Term(n, m, t, j, topHalf))
    ELSE sum

\* The choice of summation: 2 * k < m.
TopHalf(k, m) == 2 * k < m

\* Mutant: the complement sum returned without subtracting it from 1.
TailResultNoComplement(topHalf, sum, den) == sum

\* if (topHalf) sum = 1.0 - sum;  with 1.0 = den / den.
TailResult(topHalf, sum, den) == IF topHalf THEN den - sum ELSE sum

\* The k > 1 summation, past both early returns.
TailSum(n, k, m, t) ==
  LET topHalf == TopHalf(k, m)
      jlb  == IF topHalf THEN 1 ELSE k
      jub  == IF topHalf THEN k ELSE m
      sum0 == IF topHalf THEN Pow(n - t, m) ELSE Pow(t, m)
      sum  == SumLoop(n, m, t, jlb, jub, topHalf, sum0)
  IN  <<TailResult(topHalf, sum, Pow(n, m)), Pow(n, m)>>

SuccessProbability(n, k, m, t) ==
  IF k = 1
    THEN IF SaturatedOne(n, m, t)
           THEN <<1, 1>>
           ELSE <<Pow(n, m) - Pow(n - t, m), Pow(n, m)>>
    ELSE IF m < k THEN <<0, 1>>
    ELSE IF SaturatedK(n, k, m, t) THEN <<1, 1>>
    ELSE TailSum(n, k, m, t)

\* ------------------------------------------------- MinimumSamplesReqd
\* t = (size_t) ceil(tau * (double) n / 100.0), tau a whole percentage.
RankApprox(tau, n) == (tau * n + 99) \div 100

\* Log::Assert(alpha <= 1.0)
AlphaAccepted(alpha) == LessEq(alpha, <<1, 1>>)

\* prob - alpha < 0.001, for prob > alpha.
CloseAbove(prob, alpha) == Less(prob, FracAdd(alpha, Tolerance))

\* Mutant: the interval test off by one, ub <= lb + 2.
ExitConditionOffByOne(prob, alpha, ub, lb) == CloseAbove(prob, alpha) \/ ub <= lb + 2

\* Mutant: the interval test left out.
ExitConditionCloseOnly(prob, alpha, ub, lb) == CloseAbove(prob, alpha)

\* if (prob - alpha < 0.001 || ub < lb + 2)
ExitCondition(prob, alpha, ub, lb) == CloseAbove(prob, alpha) \/ ub < lb + 2

\* m = (ub + lb) / 2
Mid(ub, lb) == (ub + lb) \div 2

\* Mutant: the cap at n left out.
ReturnValueUncapped(m, n) == m + 1

\* Mutant: the margin subtracted instead of added.
ReturnValueBelow(m, n) == Min(m - 1, n)

\* Mutant: a margin of two samples.
ReturnValueWideMargin(m, n) == Min(m + 2, n)

\* return std::min(m + 1, n)
ReturnValue(m, n) == Min(m + 1, n)

\* prob = SuccessProbability(n, k, m, t) at the head of the loop body.
CurrentProb == SuccessProbability(msr.n, msr.k, msr.m, msr.t)

NoCall == [n |-> 0, k |-> 0, tau |-> 0, alpha |-> <<1, 1>>, t |-> 0, lb |-> 0,
           ub |-> 0, m |-> 0, prob |-> <<0, 1>>, done |-> FALSE,
           branch |-> "none", result |-> 0]
NoProb == [n |-> 0, k |-> 0, m |-> 0, t |-> 0, prob |-> <<0, 1>>]
NoSampling == [numSamples |-> 0, rangeUpperBound |-> 0, i |-> 0,
               sampledPoints |-> <<>>, draws |-> <<>>, distinctSamples |-> <<>>]

Init ==
  /\ pc = "idle"
  /\ msr = NoCall
  /\ sp = NoProb
  /\ ods = NoSampling

\* Entry of MinimumSamplesReqd: ub = n, lb = k, m = lb, t, done = false.
CallMinimumSamplesReqd ==
  /\ pc = "idle"
  /\ \E n \in 1..MaxN, tau \in Taus, alpha \in Alphas :
       \E k \in 1..n :
         /\ AlphaAccepted(alpha)
         /\ msr' = [n |-> n, k |-> k, tau |-> tau, alpha |-> alpha,
                    t |-> RankApprox(tau, n), lb |-> k, ub |-> n, m |-> k,
                    prob |-> <<0, 1>>, done |-> FALSE, branch |-> "none",
                    result |-> 0]
  /\ pc' = "msr_loop"
  /\ UNCHANGED <<sp, ods>>

\* prob > alpha and (prob - alpha < 0.001 or ub < lb + 2): done = true; break.
ExitAbove ==
  /\ pc = "msr_loop"
  /\ Greater(CurrentProb, msr.alpha)
  /\ ExitCondition(CurrentProb, msr.alpha, msr.ub, msr.lb)
  /\ msr' = [msr EXCEPT !.prob = CurrentProb, !.done = TRUE, !.branch = "exit_above"]
  /\ pc' = "msr_exit"
  /\ UNCHANGED <<sp, ods>>

\* prob > alpha otherwise: ub = m; then m = (ub + lb) / 2.
TightenUb ==
  /\ pc = "msr_loop"
  /\ Greater(CurrentProb, msr.alpha)
  /\ ~ExitCondition(CurrentProb, msr.alpha, msr.ub, msr.lb)
  /\ msr' = [msr EXCEPT !.prob = CurrentProb, !.ub = msr.m,
                        !.m = Mid(msr.m, msr.lb), !.branch = "ub"]
  /\ pc' = "msr_loop"
  /\ UNCHANGED <<sp, ods>>

\* prob < alpha and m == lb: m++; continue.
IncrementM ==
  /\ pc = "msr_loop"
  /\ ~Greater(CurrentProb, msr.alpha)
  /\ Less(CurrentProb, msr.alpha)
  /\ msr.m = msr.lb
  /\ msr' = [msr EXCEPT !.prob = CurrentProb, !.m = msr.m + 1, !.branch = "inc"]
  /\ pc' = "msr_loop"
  /\ UNCHANGED <<sp, ods>>

\* prob < alpha and m != lb: lb = m; then m = (ub + lb) / 2.
RaiseLb ==
  /\ pc = "msr_loop"
  /\ ~Greater(CurrentProb, msr.alpha)
  /\ Less(CurrentProb, msr.alpha)
  /\ msr.m # msr.lb
  /\ msr' = [msr EXCEPT !.prob = CurrentProb, !.lb = msr.m,
                        !.m = Mid(msr.ub, msr.m), !.branch = "lb"]
  /\ pc' = "msr_loop"
  /\ UNCHANGED <<sp, ods>>

\* prob == alpha: done = true; break.
ExitEqual ==
  /\ pc = "msr_loop"
  /\ ~Greater(CurrentProb, msr.alpha)
  /\ ~Less(CurrentProb, msr.alpha)
  /\ msr' = [msr EXCEPT !.prob = CurrentProb, !.done = TRUE, !.branch = "exit_equal"]
  /\ pc' = "msr_exit"
  /\ UNCHANGED <<sp, ods>>

\* return std::min(m + 1, n).
Return ==
  /\ pc = "msr_exit"
  /\ msr' = [msr EXCEPT !.result = ReturnValue(msr.m, msr.n)]
  /\ pc' = "msr_ret"
  /\ UNCHANGED <<sp, ods>>

\* ------------------------------------------ SuccessProbability, called alone
CallSuccessProbability ==
  /\ pc = "idle"
  /\ \E n \in 1..MaxSPN, k \in 1..MaxSPK, m \in 0..MaxSPM :
       \E t \in 0..n :
         sp' = [n |-> n, k |-> k, m |-> m, t |-> t,
                prob |-> SuccessProbability(n, k, m, t)]
  /\ pc' = "sp_ret"
  /\ UNCHANGED <<msr, ods>>

\* ---------------------------------------------- ObtainDistinctSamples
\* math::RandInt(hi): any integer in [0, hi).
RandInt(hi) == 0..(hi - 1)

\* arma::find(v > 0) over indices from..(len - 1): the indices, ascending, of
\* the elements that satisfy the condition.
RECURSIVE FindFrom(_, _, _)
FindFrom(v, from, len) ==
  IF from >= len THEN <<>>
  ELSE IF v[from] > 0 THEN <<from>> \o FindFrom(v, from + 1, len)
  ELSE FindFrom(v, from + 1, len)

\* Mutant: the scan started at index 1.
FindFromOne(v, len) == FindFrom(v, 1, len)

Find(v, len) == FindFrom(v, 0, len)

\* sampledPoints.zeros(rangeUpperBound)
Zeros(len) == [x \in 0..(len - 1) |-> 0]

\* Entry of ObtainDistinctSamples.  rangeUpperBound >= 1: with 0 there is no
\* index for sampledPoints[...] to address.
CallObtainDistinctSamples ==
  /\ pc = "idle"
  /\ \E numSamples \in 0..MaxSamples, rangeUpperBound \in 1..MaxRange :
       ods' = [numSamples |-> numSamples, rangeUpperBound |-> rangeUpperBound,
               i |-> 0, sampledPoints |-> Zeros(rangeUpperBound),
               draws |-> <<>>, distinctSamples |-> <<>>]
  /\ pc' = "ods_draw"
  /\ UNCHANGED <<msr, sp>>

\* One iteration of: sampledPoints[(size_t) math::RandInt(rangeUpperBound)]++
Draw ==
  /\ pc = "ods_draw"
  /\ ods.i < ods.numSamples
  /\ \E r \in RandInt(ods.rangeUpperBound) :
       ods' = [ods EXCEPT !.sampledPoints[r] = @ + 1, !.i = @ + 1,
                          !.draws = Append(@, r)]
  /\ pc' = "ods_draw"
  /\ UNCHANGED <<msr, sp>>

\* distinctSamples = arma::find(sampledPoints > 0); return.
FindDistinct ==
  /\ pc = "ods_draw"
  /\ ~(ods.i < ods.numSamples)
  /\ ods' = [ods EXCEPT !.distinctSamples = Find(ods.sampledPoints, ods.rangeUpperBound)]
  /\ pc' = "ods_ret"
  /\ UNCHANGED <<msr, sp>>

\* ------------------------------------------------------- specification
Next ==
  \/ CallMinimumSamplesReqd
  \/ ExitAbove
  \/ TightenUb
  \/ IncrementM
  \/ RaiseLb
  \/ ExitEqual
  \/ Return
  \/ CallSuccessProbability
  \/ CallObtainDistinctSamples
  \/ Draw
  \/ FindDistinct

Spec == Init /\ [][Next]_vars

\* The loop of MinimumSamplesReqd and the loop of ObtainDistinctSamples run
\* on one thread without suspension points: an enabled step is taken.
FairSpec == Spec /\ WF_vars(Next)

\* -----------------------------------------------------------------
\* Properties
\* -----------------------------------------------------------------
\* The binomial coefficient by Pascal's rule, independent of the incremental
\* product of the code.
RECURSIVE Choose(_, _)
Choose(m, j) ==
  IF j < 0 \/ j > m THEN 0
  ELSE IF j = 0 \/ j = m THEN 1
  ELSE Choose(m - 1, j - 1) + Choose(m - 1, j)

\* sum_{j = from..to} C(m,j) t^j (n-t)^(m-j), a numerator over n^m.
RECURSIVE BinomialSum(_, _, _, _, _)
BinomialSum(n, m, t, from, to) ==
  IF from > to THEN 0
  ELSE Choose(m, from) * Pow(t, from) * Pow(n - t, m - from)
       + BinomialSum(n, m, t, from + 1, to)

Returned == pc = "msr_ret"
Exited == pc \in {"msr_exit", "msr_ret"}

\* SuccessProbability for the inputs of the running MinimumSamplesReqd.
ProbAt(m) == SuccessProbability(msr.n, msr.k, m, msr.t)

\* ---------------------------------------------------------------- C1
\* C1 as stated: whenever MinimumSamplesReqd has returned, k < m' <= n.
C1_ResultAboveK ==
  Returned => (msr.k < msr.result /\ msr.result <= msr.n)

\* C1 amended: the returned m' is at most n; it exceeds k when k < n, and
\* it is n (= k) when k = n.
C1_ResultRange ==
  Returned => /\ msr.result <= msr.n
              /\ msr.k < msr.n => msr.k < msr.result
              /\ msr.k = msr.n => msr.result = msr.n

\* A call with k = n > 1 has returned n.
C1_Witness ==
  Returned /\ msr.k = msr.n /\ msr.n > 1 /\ msr.result = msr.n

\* ---------------------------------------------------------------- C2
\* C2 as stated: the returned m' has SuccessProbability(n,k,m',t) >= alpha.
C2_Sufficient ==
  Returned => LessEq(msr.alpha, ProbAt(msr.result))

\* C2 amended: the returned m' is sufficient whenever n samples are, that
\* is whenever SuccessProbability(n,k,n,t) >= alpha.
C2_SufficientWhenFeasible ==
  (Returned /\ LessEq(msr.alpha, ProbAt(msr.n)))
    => LessEq(msr.alpha, ProbAt(msr.result))

\* A call has returned the cap n with a solved m = n, and n is sufficient
\* without being certain.
C2_Witness ==
  /\ Returned
  /\ msr.m = msr.n
  /\ msr.result = msr.n
  /\ msr.k < msr.n
  /\ LessEq(msr.alpha, ProbAt(msr.n))

\* ---------------------------------------------------------------- C3
\* C3 as stated: every call of MinimumSamplesReqd leaves its search loop
\* and returns.
C3_Terminates == (pc = "msr_loop") ~> Returned

\* ---------------------------------------------------------------- C4
\* No smaller sample size, from k on, reaches alpha.
NoSmallerSuffices ==
  \A mm \in msr.k..(msr.m - 1) : Less(ProbAt(mm), msr.alpha)

WithinTolerance(x, alpha) ==
  Less(x, FracAdd(alpha, Tolerance)) /\ Less(alpha, FracAdd(x, Tolerance))

\* C5 as stated: SuccessProbability(n,k,m'-1,t) is below alpha or within
\* 0.001 of alpha, for the returned m'.
C5_OneBelow ==
  Returned => \/ Less(ProbAt(msr.result - 1), msr.alpha)
              \/ WithinTolerance(ProbAt(msr.result - 1), msr.alpha)

\* C5 amended: SuccessProbability(n,k,m'-1,t) is below alpha, or within
\* 0.001 of alpha, or the loop left through ub < lb + 2 with m'-1 the solved
\* m, and then m'-1 = k or SuccessProbability(n,k,m'-2,t) < alpha.
C5_OneOrTwoBelow ==
  Returned => \/ Less(ProbAt(msr.result - 1), msr.alpha)
              \/ WithinTolerance(ProbAt(msr.result - 1), msr.alpha)
              \/ /\ msr.ub < msr.lb + 2
                 /\ msr.result - 1 = msr.m
                 /\ \/ msr.result - 1 = msr.k
                    \/ Less(ProbAt(msr.result - 2), msr.alpha)

\* A call has returned m' = m + 1 after leaving through ub < lb + 2 with
\* the probability at m'-1 more than 0.001 above alpha and m'-1 > k.
C5_Witness ==
  /\ Returned
  /\ msr.result = msr.m + 1
  /\ msr.ub < msr.lb + 2
  /\ msr.m > msr.k
  /\ ~Less(ProbAt(msr.m), FracAdd(msr.alpha, Tolerance))

\* ---------------------------------------------------------------- C6
SPReturned == pc = "sp_ret"

\* The last index of a lower or upper partial sum never passes m.
LowerSum(n, k, m, t) == BinomialSum(n, m, t, 0, Min(k - 1, m))
UpperSum(n, k, m, t) == BinomialSum(n, m, t, k, m)

\* The values of j for which the k > 1 summation forms a coefficient.
UsedJ(k, m) == IF TopHalf(k, m) THEN 1..(k - 1) ELSE k..(m - 1)

\* C6: for m <= n - t + k - 1, SuccessProbability(n,k,m,t) is the binomial
\* right tail sum_{j=k..m} C(m,j) eps^j (1-eps)^(m-j), it and the lower sum
\* add up to 1, the incremental product is C(m,j) for every j used, and the
\* value is 0 when m < k.
C6_BinomialTail ==
  (SPReturned /\ sp.m <= sp.n - sp.t + sp.k - 1) =>
    /\ Equal(sp.prob, <<UpperSum(sp.n, sp.k, sp.m, sp.t), Pow(sp.n, sp.m)>>)
    /\ LowerSum(sp.n, sp.k, sp.m, sp.t) + UpperSum(sp.n, sp.k, sp.m, sp.t)
         = Pow(sp.n, sp.m)
    /\ (sp.k > 1 /\ sp.m >= sp.k) =>
         \A j \in UsedJ(sp.k, sp.m) :
           IncrementalChoose(sp.m, JTrans(sp.m, j, TopHalf(sp.k, sp.m))) = Choose(sp.m, j)
    /\ sp.m < sp.k => sp.prob[1] = 0

\* SuccessProbability has returned from the complement summation with a
\* value strictly between 0 and 1.
C6_Witness ==
  /\ SPReturned
  /\ sp.k > 1
  /\ TopHalf(sp.k, sp.m)
  /\ sp.m <= sp.n - sp.t + sp.k - 1
  /\ 0 < sp.prob[1]
  /\ sp.prob[1] < sp.prob[2]

\* ---------------------------------------------------------------- C7
\* C7: for 1 <= k <= n and 0 <= t <= n, SuccessProbability(n,k,m,t) <=
\* SuccessProbability(n,k,m+1,t).
C7_NonDecreasing ==
  (SPReturned /\ sp.k <= sp.n) =>
    LessEq(sp.prob, SuccessProbability(sp.n, sp.k, sp.m + 1, sp.t))

\* SuccessProbability has returned from the direct summation at the last m
\* before the complement summation takes over, strictly between 0 and 1.
C7_Witness ==
  /\ SPReturned
  /\ 1 < sp.k
  /\ sp.k <= sp.n
  /\ sp.m = 2 * sp.k
  /\ ~SaturatedK(sp.n, sp.k, sp.m + 1, sp.t)
  /\ 0 < sp.prob[1]
  /\ sp.prob[1] < sp.prob[2]

\* ---------------------------------------------------------------- C8
\* n - t for k = 1, n - t + k - 1 for k > 1.
SaturationBound(n, k, t) == IF k = 1 THEN n - t ELSE n - t + k - 1

One == <<1, 1>>

Range(seq) == {seq[x] : x \in DOMAIN seq}

\* C9: ObtainDistinctSamples returns exactly the indices drawn at least
\* once, strictly increasing; so all lie in [0, rangeUpperBound), there are
\* at most min(numSamples, rangeUpperBound) of them, and none when
\* numSamples = 0.
C9_DistinctSamples ==
  pc = "ods_ret" =>
    /\ Range(ods.distinctSamples) = Range(ods.draws)
    /\ \A x, y \in DOMAIN ods.distinctSamples :
         x < y => ods.distinctSamples[x] < ods.distinctSamples[y]
    /\ \A x \in DOMAIN ods.distinctSamples :
         0 <= ods.distinctSamples[x] /\ ods.distinctSamples[x] < ods.rangeUpperBound
    /\ Len(ods.distinctSamples) <= Min(ods.numSamples, ods.rangeUpperBound)
    /\ Len(ods.draws) = ods.numSamples
    /\ ods.numSamples = 0 => ods.distinctSamples = <<>>

\* ObtainDistinctSamples has returned after drawing an index twice, and a
\* larger index before a smaller one.
C9_Witness ==
  /\ pc = "ods_ret"
  /\ Len(ods.distinctSamples) = 2
  /\ Len(ods.draws) = 3
  /\ ods.draws[1] > ods.draws[2]

\* --------------------------------------------------------------- C10
WellBehaved == msr.t >= msr.k

\* C10: when t >= k, every m the loop evaluates has k <= lb <= m <= ub <= n,
\* the branch m++ is never taken twice in a row, each pass through
\* m = (ub + lb) / 2 has reduced ub - lb, and the loop is left.
C10_WellBehavedSearch ==
  /\ []((pc = "msr_loop" /\ WellBehaved) =>
         (msr.k <= msr.lb /\ msr.lb <= msr.m /\ msr.m <= msr.ub /\ msr.ub <= msr.n))
  /\ [][(pc = "msr_loop" /\ WellBehaved /\ msr.branch = "inc")
          => msr'.branch # "inc"]_vars
  /\ [][(pc = "msr_loop" /\ WellBehaved /\ msr'.branch \in {"ub", "lb"})
          => msr'.ub - msr'.lb < msr.ub - msr.lb]_vars
  /\ ((pc = "msr_loop" /\ WellBehaved) ~> Exited)

\* In the regime t >= k the loop has left after taking the m++ branch and
\* after moving both bounds.
C10_Witness ==
  /\ Exited
  /\ WellBehaved
  /\ msr.lb > msr.k
  /\ msr.ub < msr.n
  /\ msr.m = msr.lb + 1

====
